---- MODULE Spec2Model ----
(***************************************************************************)
(* A model of benchmark_pprimes.py: the sweep over (N, threads) cells, the *)
(* per-cell trial loop, the speedup computation and the emitted artifacts  *)
(* (raw CSV, three charts, seconds CSV, summary table image).              *)
(*                                                                         *)
(* Floats are exact rationals <<"num", n, d>> in lowest terms, or the      *)
(* not-a-number value <<"nan", 0, 1>>.  The elapsed values fed to the      *)
(* model are finite and non-negative (the parser's [0-9.]+ has no sign).   *)
(***************************************************************************)
EXTENDS Integers, Sequences, FiniteSets, TLC

\* ---------------------------------------------------------------- bounds
MaxClock == 2

\* Values the configuration and the workload's output are drawn from.
SizeValues == {1, 10}
ThreadValues == {1, 2}
ElapsedValues == {0, 100}
TotalValues == {4}
TrialCounts == {1, 2, 3}

\* Owners of files on disk: an earlier run of the script, and this run.
Prior == "prior"
Me == "this"

\* ---------------------------------------------------------------- floats
RECURSIVE GCD(_, _)
GCD(a, b) == IF b = 0 THEN a ELSE GCD(b, a % b)

Num(n, d) == LET g == GCD(n, d) IN <<"num", n \div g, d \div g>>
NaN == <<"nan", 0, 1>>
Blank == <<"blank", 0, 1>>
NoKey == <<"nokey", 0, 1>>

IsNaN(x) == x[1] = "nan"
IsFinite(x) == x[1] = "num"
IsZero(x) == x[1] = "num" /\ x[2] = 0
GT0(x) == x[1] = "num" /\ x[2] > 0

FAdd(a, b) == IF IsNaN(a) \/ IsNaN(b) THEN NaN
              ELSE Num(a[2] * b[3] + b[2] * a[3], a[3] * b[3])
\* a / b for b # 0 (every division of the script is guarded or has b > 0)
FDiv(a, b) == IF IsNaN(a) \/ IsNaN(b) THEN NaN
              ELSE Num(a[2] * b[3], a[3] * b[2])
FDivInt(a, k) == FDiv(a, Num(k, 1))

RECURSIVE FSum(_)
FSum(s) == IF s = <<>> THEN Num(0, 1) ELSE FAdd(s[1], FSum(Tail(s)))

Mean(s) == FDivInt(FSum(s), Len(s))

\* float(f"{v:.3f}"): the nearest multiple of 1/1000, ties to even
Round3(x) ==
    LET q == (x[2] * 1000) \div x[3]
        r == (x[2] * 1000) % x[3]
        up == 2 * r > x[3] \/ (2 * r = x[3] /\ q % 2 = 1)
    IN  Num(IF up THEN q + 1 ELSE q, 1000)

\* ---------------------------------------------------------------- helpers
Range(s) == {s[k] : k \in 1..Len(s)}
InjSeqs(S) == {s \in UNION {[1..k -> S] : k \in 1..Cardinality(S)} :
                 \A a, b \in DOMAIN s : a # b => s[a] # s[b]}
EmptyMap == [x \in {} |-> <<>>]
Get(m, k, default) == IF k \in DOMAIN m THEN m[k] ELSE default

VARIABLES NS, THREADS, TRIALS,
          exeOK, pc, cell, i, times_ms, total_last,
          rows, trials_map, lastWarn,
          clock, outdir, disk,
          csv_raw, charts, df_table, csv_sec, table_png

vars == <<NS, THREADS, TRIALS, exeOK, pc, cell, i, times_ms, total_last,
          rows, trials_map, lastWarn, clock, outdir, disk,
          csv_raw, charts, df_table, csv_sec, table_png>>

config == <<NS, THREADS, TRIALS>>
sweepvars == <<cell, i, times_ms, total_last>>
emitted == <<csv_raw, charts, df_table, csv_sec, table_png>>
loopvars == <<sweepvars, clock>>

\* ---------------------------------------------------------------- sweep
NCells == Len(NS) * Len(THREADS)
CellN(k) == NS[((k - 1) \div Len(THREADS)) + 1]
CellT(k) == THREADS[((k - 1) % Len(THREADS)) + 1]

NoneTotal == -2
NoWarn == [N |-> 0, threads |-> 0, cause |-> "none", printed |-> 0]
NoFile == <<>>
ChartFiles == {"time_seconds_vs_problem_size_all_threads.png",
               "time_milliseconds_logscale_vs_problem_size_all_threads.png",
               "speedup_vs_problem_size_all_threads.png"}
AllFiles == {"pprimes_bench.csv", "pprimes_bench_seconds.csv",
             "summary_table_seconds_sci.png"} \cup ChartFiles
\* The directory an earlier, complete run of the script left: it was named
\* from second 1 of the clock.
PriorDisk == (1 :> [f \in AllFiles |-> Prior])

InitCommon ==
    /\ NS \in InjSeqs(SizeValues)
    /\ THREADS \in InjSeqs(ThreadValues)
    /\ TRIALS \in TrialCounts
    /\ exeOK \in BOOLEAN
    /\ pc = "start"
    /\ cell = 1
    /\ i = 0
    /\ times_ms = <<>>
    /\ total_last = NoneTotal
    /\ rows = <<>>
    /\ trials_map = EmptyMap
    /\ lastWarn = NoWarn
    /\ outdir = 0
    /\ disk = PriorDisk
    /\ csv_raw = NoFile
    /\ charts = NoFile
    /\ df_table = NoFile
    /\ csv_sec = NoFile
    /\ table_png = NoFile

\* The run starts in a later second than the earlier run did.
Init == InitCommon /\ clock = MaxClock

\* A short sweep (one size), started while the clock may still show the
\* second of the earlier run.
InitRuns == InitCommon /\ Len(NS) = 1 /\ clock = 1

\* main, lines 69-74: the executable is checked once, before the sweep
CheckExecutable ==
    /\ pc = "start"
    /\ pc' = IF exeOK THEN "mkdir" ELSE "exit1"
    /\ UNCHANGED <<config, exeOK, loopvars, rows, trials_map, lastWarn,
                   outdir, disk, emitted>>

\* main, lines 76-78: the directory is named from the clock's second;
\* mkdir(exist_ok=True) accepts a directory that is already there
MakeOutdir ==
    /\ pc = "mkdir"
    /\ \E now \in clock..MaxClock :
         /\ clock' = now
         /\ outdir' = now
         /\ disk' = IF now \in DOMAIN disk THEN disk
                    ELSE (now :> [f \in {} |-> Me]) @@ disk
    /\ pc' = "sweep"
    /\ UNCHANGED <<config, exeOK, sweepvars, rows, trials_map, lastWarn, emitted>>

\* the executable is deleted or loses its execute bit while the sweep runs
ExecutableRemoved ==
    /\ pc = "sweep"
    /\ exeOK
    /\ exeOK' = FALSE
    /\ UNCHANGED <<config, pc, loopvars, rows, trials_map, lastWarn,
                   outdir, disk, emitted>>

\* main, lines 90-97: the row of a measured cell
MeasuredRow(n, t, avg_ms, total) ==
    [N |-> n, threads |-> t, trials |-> TRIALS, avg_ms |-> avg_ms,
     avg_sec |-> IF ~IsNaN(avg_ms) THEN FDivInt(avg_ms, 1000) ELSE NaN,
     total_primes |-> total, speedup |-> NoKey]

FailedCell_ZeroAvg == [avg_ms |-> Num(0, 1), total_primes |-> -1, times_ms |-> <<>>]

\* main, lines 87-89: what the except clause records for the cell
FailedCell == [avg_ms |-> NaN, total_primes |-> -1, times_ms |-> <<>>]

\* main, lines 90-98 and the loop header: append the row, go to the next cell
RecordCell(avg_ms, total, times) ==
    /\ rows' = Append(rows, MeasuredRow(CellN(cell), CellT(cell), avg_ms, total))
    /\ trials_map' = (<<CellN(cell), CellT(cell)>> :> times) @@ trials_map
    /\ cell' = cell + 1
    /\ i' = 0
    /\ times_ms' = <<>>
    /\ total_last' = NoneTotal
    /\ pc' = IF cell + 1 > NCells THEN "speedup" ELSE "sweep"

\* run_trials, lines 57-63, one iteration whose run_once returns; after the
\* last one the average is taken (line 62) and main records the cell
TrialSucceeds(elapsed, total) ==
    /\ pc = "sweep"
    /\ exeOK
    /\ i < TRIALS
    /\ \/ /\ i + 1 < TRIALS
          /\ times_ms' = Append(times_ms, Num(elapsed, 1))
          /\ total_last' = total
          /\ i' = i + 1
          /\ UNCHANGED <<pc, cell, rows, trials_map>>
       \/ /\ i + 1 = TRIALS
          /\ RecordCell(Mean(Append(times_ms, Num(elapsed, 1))), total,
                        Append(times_ms, Num(elapsed, 1)))
    /\ UNCHANGED <<config, exeOK, lastWarn, clock, outdir, disk, emitted>>

OnTrialException_Abort(cause) ==
    /\ pc' = "crashed"
    /\ lastWarn' = [N |-> CellN(cell), threads |-> CellT(cell),
                    cause |-> cause, printed |-> i]
    /\ UNCHANGED <<cell, i, times_ms, total_last, rows, trials_map>>

\* main, lines 87-89: the exception of run_once leaves run_trials and is
\* caught by main, which records the cell and goes on
OnTrialException(cause) ==
    /\ RecordCell(FailedCell.avg_ms, FailedCell.total_primes, FailedCell.times_ms)
    /\ lastWarn' = [N |-> CellN(cell), threads |-> CellT(cell),
                    cause |-> cause, printed |-> i]

\* run_once raises: lines 39-40 (timeout), 45-48 (parse), or another
\* exception of subprocess.run or float()
TrialFails(cause) ==
    /\ pc = "sweep"
    /\ exeOK
    /\ i < TRIALS
    /\ OnTrialException(cause)
    /\ UNCHANGED <<config, exeOK, clock, outdir, disk, emitted>>

\* run_once, lines 32-33: FileNotFoundError
TrialFindsNoExecutable ==
    /\ pc = "sweep"
    /\ ~exeOK
    /\ i < TRIALS
    /\ OnTrialException("unavailable")
    /\ UNCHANGED <<config, exeOK, clock, outdir, disk, emitted>>

\* ---------------------------------------------------------------- speedup
\* main, line 103: next(r for r in rows if N == n and threads == t), or None
FirstRowIndex(rs, n, t) ==
    IF \E k \in 1..Len(rs) : rs[k].N = n /\ rs[k].threads = t
    THEN CHOOSE k \in 1..Len(rs) :
           /\ rs[k].N = n /\ rs[k].threads = t
           /\ \A j \in 1..(k - 1) : ~(rs[j].N = n /\ rs[j].threads = t)
    ELSE 0

\* main, lines 101-105: the 1-thread average of each size, when it is a number
BaseMsByN(rs) ==
    LET has(n) == /\ FirstRowIndex(rs, n, 1) # 0
                  /\ ~IsNaN(rs[FirstRowIndex(rs, n, 1)].avg_ms)
    IN  [n \in {m \in Range(NS) : has(m)} |-> rs[FirstRowIndex(rs, n, 1)].avg_ms]

SpeedupOf_FirstBaseline(base_ms_by_n, r) ==
    LET base == Get(base_ms_by_n, NS[1], NoKey)
    IN  IF /\ base # NoKey /\ ~IsZero(base)
           /\ ~IsZero(r.avg_ms) /\ ~IsNaN(r.avg_ms) /\ GT0(r.avg_ms)
        THEN FDiv(base, r.avg_ms)
        ELSE NaN

\* main, lines 108-110: base / avg_ms when base and avg_ms are truthy (not
\* None, not 0.0), and avg_ms is a number above 0
SpeedupOf(base_ms_by_n, r) ==
    LET base == Get(base_ms_by_n, r.N, NoKey)
    IN  IF /\ base # NoKey /\ ~IsZero(base)
           /\ ~IsZero(r.avg_ms) /\ ~IsNaN(r.avg_ms) /\ GT0(r.avg_ms)
        THEN FDiv(base, r.avg_ms)
        ELSE NaN

\* main, lines 100-110
ComputeSpeedups ==
    /\ pc = "speedup"
    /\ rows' = [k \in DOMAIN rows |->
                  [rows[k] EXCEPT !.speedup = SpeedupOf(BaseMsByN(rows), rows[k])]]
    /\ pc' = "rawcsv"
    /\ UNCHANGED <<config, exeOK, loopvars, trials_map, lastWarn, outdir, disk, emitted>>

\* ---------------------------------------------------------------- raw CSV
Col(name, k) == <<name, k>>
TrialCols(name) == [k \in 1..TRIALS |-> Col(name, k)]

\* main, line 116
RawFieldnames ==
    <<Col("N", 0), Col("threads", 0), Col("trials", 0)>> \o TrialCols("trial_ms")
    \o <<Col("avg_ms", 0), Col("avg_sec", 0), Col("speedup", 0), Col("total_primes", 0)>>

\* main, lines 120-125
RawRecord(r) ==
    LET times == Get(trials_map, <<r.N, r.threads>>, <<>>)
    IN  [N |-> r.N, threads |-> r.threads, trials |-> r.trials,
         trial |-> [k \in 1..TRIALS |-> IF k <= Len(times) THEN times[k] ELSE Blank],
         avg_ms |-> r.avg_ms, avg_sec |-> r.avg_sec, speedup |-> r.speedup,
         total_primes |-> r.total_primes]

WriteFile(name) == disk' = [disk EXCEPT ![outdir] = (name :> Me) @@ @]

\* main, lines 112-127
WriteRawCsv ==
    /\ pc = "rawcsv"
    /\ csv_raw' = [header |-> RawFieldnames,
                   body |-> [k \in DOMAIN rows |-> RawRecord(rows[k])]]
    /\ WriteFile("pprimes_bench.csv")
    /\ pc' = "plots"
    /\ UNCHANGED <<config, exeOK, loopvars, rows, trials_map, lastWarn, outdir,
                   charts, df_table, csv_sec, table_png>>

\* ---------------------------------------------------------------- charts
\* the order of sort_values(by): by = <<"N">> or <<"N", "threads">>
Before(a, b, by) ==
    IF Len(by) = 1 THEN a.N < b.N
    ELSE a.N < b.N \/ (a.N = b.N /\ a.threads < b.threads)

SortValues_Unsorted(s, by) == s

\* DataFrame.sort_values(by): ascending, rows of equal keys in their order
SortValues(s, by) ==
    LET rank(k) == Cardinality({j \in 1..Len(s) :
                      Before(s[j], s[k], by) \/ (~Before(s[k], s[j], by) /\ j < k)})
    IN  [p \in 1..Len(s) |-> s[CHOOSE k \in 1..Len(s) : rank(k) = p - 1]]

\* main, lines 136, 153, 173: df[df["threads"] == t].sort_values("N")
FrameOfThreads(t) ==
    LET keep(r) == r.threads = t IN SortValues(SelectSeq(rows, keep), <<"N">>)

\* main, line 171: the 1-thread averages by size, not-a-number ones included
ChartBaseMap ==
    LET base == FrameOfThreads(1)
    IN  [n \in {base[k].N : k \in 1..Len(base)} |->
           LET last == CHOOSE k \in 1..Len(base) :
                          base[k].N = n /\ \A j \in (k + 1)..Len(base) : base[j].N # n
           IN  base[last].avg_ms]

\* main, lines 176-178
ChartSpeedupOf(r) ==
    LET base == Get(ChartBaseMap, r.N, NaN)
    IN  IF ~IsNaN(r.avg_ms) /\ GT0(r.avg_ms) /\ ~IsNaN(base)
        THEN FDiv(base, r.avg_ms)
        ELSE NaN

\* main, lines 138, 155, 180: what a figure plots for a row
ChartY(figure, r) ==
    CASE figure = "seconds" -> r.avg_sec
      [] figure = "ms_log" -> r.avg_ms
      [] figure = "speedup" -> ChartSpeedupOf(r)

\* one line per entry of THREADS: the points (N, y)
ChartLines(figure) ==
    [k \in 1..Len(THREADS) |->
       LET df_t == FrameOfThreads(THREADS[k])
       IN  [threads |-> THREADS[k],
            points |-> [j \in 1..Len(df_t) |-> <<df_t[j].N, ChartY(figure, df_t[j])>>]]]

\* main, lines 129-188: the three figures
PlotCharts ==
    /\ pc = "plots"
    /\ charts' = [figure \in {"seconds", "ms_log", "speedup"} |-> ChartLines(figure)]
    /\ disk' = [disk EXCEPT ![outdir] =
                  [f \in ChartFiles |-> Me] @@ @]
    /\ pc' = "seccsv"
    /\ UNCHANGED <<config, exeOK, loopvars, rows, trials_map, lastWarn, outdir,
                   csv_raw, df_table, csv_sec, table_png>>

\* ---------------------------------------------------------------- seconds table
\* main, lines 197-201
BaselineSecByN ==
    LET t1(n) == Get(trials_map, <<n, 1>>, <<>>)
    IN  [n \in {m \in Range(NS) : t1(m) # <<>>} |-> FDivInt(Mean(t1(n)), 1000)]

\* main, lines 208-224
TableRecord(n, t) ==
    LET times == Get(trials_map, <<n, t>>, <<>>)
        secs == [k \in 1..Len(times) |-> FDivInt(times[k], 1000)]
        avg_sec == IF secs # <<>> THEN Mean(secs) ELSE NaN
        base == Get(BaselineSecByN, n, NaN)
        total_row == FirstRowIndex(rows, n, t)
    IN  [N |-> n, threads |-> t, trials |-> TRIALS,
         trial |-> [k \in 1..TRIALS |-> IF k <= Len(secs) THEN secs[k] ELSE NaN],
         avg_sec |-> avg_sec,
         speedup |-> IF IsFinite(base) /\ IsFinite(avg_sec) /\ GT0(avg_sec)
                     THEN FDiv(base, avg_sec) ELSE NaN,
         total_primes |-> IF total_row # 0 THEN rows[total_row].total_primes ELSE Blank]

\* main, lines 205-224: for n in NS: for t in THREADS
TableRowsRaw == [k \in 1..NCells |-> TableRecord(CellN(k), CellT(k))]

\* main, line 227
DfTable == SortValues(TableRowsRaw, <<"N", "threads">>)

\* main, line 204 and the record's key order
SecFieldnames ==
    <<Col("N", 0), Col("threads", 0), Col("trials", 0)>> \o TrialCols("trial_s")
    \o <<Col("avg_sec", 0), Col("speedup", 0), Col("total_primes", 0)>>

\* main, line 257: None (written as an empty field) unless finite
CsvRound(v) == IF IsFinite(v) THEN Round3(v) ELSE Blank

\* main, lines 256-257
DfCsv(df) ==
    [k \in DOMAIN df |->
       [df[k] EXCEPT !.trial = [j \in 1..TRIALS |-> CsvRound(df[k].trial[j])],
                     !.avg_sec = CsvRound(@), !.speedup = CsvRound(@)]]

\* main, lines 196-227 and 252-259
WriteSecondsCsv ==
    /\ pc = "seccsv"
    /\ df_table' = DfTable
    /\ csv_sec' = [header |-> SecFieldnames, body |-> DfCsv(DfTable)]
    /\ WriteFile("pprimes_bench_seconds.csv")
    /\ pc' = "render"
    /\ UNCHANGED <<config, exeOK, loopvars, rows, trials_map, lastWarn, outdir,
                   csv_raw, charts, table_png>>

\* ---------------------------------------------------------------- table image
RECURSIVE Pow10(_)
Pow10(k) == IF k = 0 THEN 1 ELSE 10 * Pow10(k - 1)

RECURSIVE SciExp(_, _)
SciExp(n, d) == IF n >= 10 * d THEN SciExp(n, 10 * d) + 1
                ELSE IF n < d THEN SciExp(10 * n, d) - 1
                ELSE 0

\* main, lines 230-231: f"{x:.3e}", a mantissa of three decimals and an exponent
fmt_scientific_sec(x) ==
    IF ~IsFinite(x) THEN Blank
    ELSE IF x[2] = 0 THEN <<"sci", 0, 0>>
    ELSE LET e == SciExp(x[2], x[3])
             n == x[2] * 1000 * (IF e < 0 THEN Pow10(-e) ELSE 1)
             d == x[3] * (IF e > 0 THEN Pow10(e) ELSE 1)
             q == n \div d
             r == n % d
             m == IF 2 * r > d \/ (2 * r = d /\ q % 2 = 1) THEN q + 1 ELSE q
         IN  IF m = 10000 THEN <<"sci", 1000, e + 1>> ELSE <<"sci", m, e>>

\* main, lines 233-234: f"{x:.3f}"
fmt_three_dec(x) == IF ~IsFinite(x) THEN Blank ELSE Round3(x)

\* main, lines 266-275
display_cols ==
    <<Col("N", 0), Col("threads", 0), Col("trial_s", 1), Col("trial_s", 2),
      Col("trial_s", 3), Col("avg_sec", 0), Col("speedup", 0), Col("total_primes", 0)>>

\* main, lines 237-249 and 286: the formatted copy, its display columns only
DfShow ==
    [k \in DOMAIN df_table |->
       [N |-> df_table[k].N, threads |-> df_table[k].threads,
        trial |-> [j \in 1..3 |-> fmt_scientific_sec(df_table[k].trial[j])],
        avg_sec |-> fmt_scientific_sec(df_table[k].avg_sec),
        speedup |-> fmt_three_dec(df_table[k].speedup),
        total_primes |-> df_table[k].total_primes]]

\* main, lines 236-323: df_disp[display_cols] raises KeyError for a column
\* the frame lacks; otherwise the image is saved and "Done." printed
RenderTable ==
    /\ pc = "render"
    /\ IF Range(display_cols) \subseteq Range(SecFieldnames)
       THEN /\ table_png' = [header |-> display_cols, body |-> DfShow]
            /\ WriteFile("summary_table_seconds_sci.png")
            /\ pc' = "done"
       ELSE /\ pc' = "crashed"
            /\ UNCHANGED <<table_png, disk>>
    /\ UNCHANGED <<config, exeOK, loopvars, rows, trials_map, lastWarn, outdir,
                   csv_raw, charts, df_table, csv_sec>>

Next ==
    \/ CheckExecutable
    \/ MakeOutdir
    \/ ExecutableRemoved
    \/ \E e \in ElapsedValues, c \in TotalValues : TrialSucceeds(e, c)
    \/ \E cause \in {"timeout", "parse", "other"} : TrialFails(cause)
    \/ TrialFindsNoExecutable
    \/ ComputeSpeedups
    \/ WriteRawCsv
    \/ PlotCharts
    \/ WriteSecondsCsv
    \/ RenderTable

Spec == Init /\ [][Next]_vars
SpecRuns == InitRuns /\ [][Next]_vars
\* The control state of the script: where it is, in which cell and trial, and
\* whether the executable is there.  Every step of Next changes it.
control == <<pc, cell, i, exeOK>>
Running == pc \notin {"exit1", "done", "crashed"}
Proceeds ==
    /\ Running
    /\ pc' \in {"mkdir", "exit1", "sweep", "speedup", "rawcsv", "plots",
                "seccsv", "render", "done", "crashed"}
    /\ cell' \in 1..(NCells + 1)
    /\ i' \in 0..TRIALS
    /\ exeOK' \in BOOLEAN

\* Every step of the script ends: run_once is cut off at TIMEOUT_SEC and the
\* rest is straight-line code, so the control state of a script that has not
\* ended does not stay as it is for ever.
FairSpec == InitRuns /\ [][Next]_vars /\ WF_control(Proceeds)

\* ---------------------------------------------------------------- properties
ThisCell == <<CellN(cell), CellT(cell)>>
CellCompletes == pc = "sweep" /\ Len(rows') = Len(rows) + 1
TrialFailed == lastWarn' # lastWarn
IsPrefix(a, b) == Len(a) <= Len(b) /\ \A k \in 1..Len(a) : a[k] = b[k]
Reporting == pc \in {"plots", "seccsv", "render", "done", "crashed"}
SpeedupsBuilt == pc \in {"rawcsv", "plots", "seccsv", "render", "done", "crashed"}
Written(file) == file # NoFile
\* the rows of a table for the cell (n, t)
RowsFor(body, n, t) == {k \in 1..Len(body) : body[k].N = n /\ body[k].threads = t}
Pairs == {<<CellN(k), CellT(k)>> : k \in 1..NCells}
Tables == <<csv_raw, csv_sec, table_png>>

\* C1: run_trials invokes run_once exactly TRIALS times for a cell whatever the
\* outcomes, and every sample that succeeded is in the cell's recorded list:
\* a cell is only completed by its TRIALS-th invocation, and the samples
\* gathered so far are a prefix of what is recorded.
C1_AllTrialsRunAndKept ==
    [][CellCompletes =>
         /\ i + 1 = TRIALS
         /\ IsPrefix(times_ms, trials_map'[ThisCell])]_vars

\* C2: whenever at least one trial of the cell succeeded, the recorded
\* average is the arithmetic mean of exactly the successful samples.
C2_MeanOfSuccessfulTrials ==
    [][CellCompletes =>
         LET successes == IF TrialFailed THEN times_ms ELSE trials_map'[ThisCell]
         IN  successes # <<>> => rows'[Len(rows')].avg_ms = Mean(successes)]_vars

\* a row with the sentinel average is one row of an emitted table, its
\* average (the field avg) not-a-number or blank and its result count -1
SentinelShown(table, n, t, avg) ==
    Written(table) =>
        /\ Cardinality(RowsFor(table.body, n, t)) = 1
        /\ \A k \in RowsFor(table.body, n, t) :
             /\ table.body[k][avg] \in {NaN, Blank}
             /\ table.body[k].total_primes = -1

\* C3: a cell none of whose trials succeeded is recorded with a not-a-number
\* average, result count -1 and no samples; and every row with the sentinel
\* average is one row of each emitted table (raw CSV, seconds CSV, summary
\* table), shown as not-a-number or blank, never as a number.
C3_ZeroSuccessCellKept ==
    /\ [][(CellCompletes /\ TrialFailed /\ times_ms = <<>>) =>
            /\ IsNaN(rows'[Len(rows')].avg_ms)
            /\ rows'[Len(rows')].total_primes = -1
            /\ trials_map'[ThisCell] = <<>>]_vars
    /\ [](\A k \in 1..Len(rows) : IsNaN(rows[k].avg_ms) =>
            /\ SentinelShown(csv_raw, rows[k].N, rows[k].threads, "avg_ms")
            /\ SentinelShown(csv_sec, rows[k].N, rows[k].threads, "avg_sec")
            /\ SentinelShown(table_png, rows[k].N, rows[k].threads, "avg_sec"))
C3_Witness ==
    /\ pc = "done"
    /\ lastWarn.cause = "timeout" /\ lastWarn.printed = 0
    /\ Written(csv_raw) /\ Written(csv_sec) /\ Written(table_png)
    /\ \E k \in 1..Len(rows) :
         /\ rows[k].N = lastWarn.N /\ rows[k].threads = lastWarn.threads
         /\ IsNaN(rows[k].avg_ms)
    /\ \E k \in 1..Len(rows) : GT0(rows[k].avg_ms)

\* the first 1-thread row of size n, 0 when there is none
BaselineIndex(n) == FirstRowIndex(rows, n, 1)

\* C4: once the speedups are built, a cell whose average is a positive number
\* and whose size has a 1-thread cell with a positive average has
\* speedup = that baseline / its average; every other cell's speedup is
\* not-a-number.  Only the baseline of the cell's own size is used.
C4_SpeedupAgainstOwnBaseline ==
    SpeedupsBuilt =>
      \A k \in 1..Len(rows) :
        LET r == rows[k]
            b == BaselineIndex(r.N)
        IN  IF GT0(r.avg_ms) /\ b # 0 /\ GT0(rows[IF b = 0 THEN k ELSE b].avg_ms)
            THEN r.speedup = FDiv(rows[b].avg_ms, r.avg_ms)
            ELSE r.speedup = NaN
C4_Witness ==
    /\ SpeedupsBuilt
    /\ \E k, j \in 1..Len(rows) :
         /\ rows[k].N # rows[j].N
         /\ rows[k].threads = 2 /\ rows[j].threads = 2
         /\ GT0(rows[k].avg_ms) /\ GT0(rows[j].avg_ms)
         /\ IsFinite(rows[k].speedup) /\ rows[k].speedup # Num(1, 1)
         /\ BaselineIndex(rows[j].N) # 0
         /\ IsZero(rows[BaselineIndex(rows[j].N)].avg_ms)
         /\ IsNaN(rows[j].speedup)

\* C5: an unavailable executable is always fatal: when run_once finds the
\* executable missing, the run ends instead of recording a failed cell.
C5_UnavailableIsFatal ==
    lastWarn.cause = "unavailable" => pc \in {"exit1", "crashed"}

\* the report is being emitted and the raw CSV holds the whole sweep
SweepReported ==
    /\ Reporting
    /\ Written(csv_raw)
    /\ Len(csv_raw.body) = NCells
    /\ \A k \in 1..NCells :
         LET row == csv_raw.body[k]
             times == Get(trials_map, <<CellN(k), CellT(k)>>, <<>>)
         IN  /\ row.N = CellN(k) /\ row.threads = CellT(k)
             /\ IF Len(times) = TRIALS
                THEN row.avg_ms = Mean(times) /\ row.trial = times
                ELSE IsNaN(row.avg_ms) /\ IsNaN(row.speedup)

\* C6: whatever the trials' outcomes, a sweep that has started reaches the
\* report with one row per configured pair, in which every cell whose trials
\* all succeeded carries the mean of its own samples and every cell that
\* failed carries a not-a-number average and speedup.
C6_SweepAlwaysReported == (pc = "sweep") ~> SweepReported
C6_Witness ==
    /\ SweepReported
    /\ lastWarn.cause = "timeout" /\ lastWarn.printed = 0
    /\ \E k, j \in 1..NCells :
         /\ csv_raw.body[k].N = lastWarn.N
         /\ csv_raw.body[k].threads = lastWarn.threads
         /\ IsNaN(csv_raw.body[k].avg_ms) /\ IsNaN(csv_raw.body[k].speedup)
         /\ j # k /\ GT0(csv_raw.body[j].avg_ms)

\* the rows of a table follow the loops over NS and THREADS
InConfiguredOrder(table) ==
    Written(table) =>
        /\ Len(table.body) = NCells
        /\ \A k \in 1..NCells :
             table.body[k].N = CellN(k) /\ table.body[k].threads = CellT(k)

\* C7 (as stated): the rows of every emitted table are in the configured
\* enumeration order, one row per configured pair, whatever the order of
\* the configured lists.
C7_ConfiguredOrderEverywhere ==
    \A x \in 1..3 : InConfiguredOrder(Tables[x])

\* row counts and sort order of an emitted table
OneRowPerPair(table) ==
    Written(table) =>
        /\ Len(table.body) = NCells
        /\ \A p \in Pairs : Cardinality(RowsFor(table.body, p[1], p[2])) = 1
Ascending(table) ==
    Written(table) =>
        \A k \in 1..(Len(table.body) - 1) :
           \/ table.body[k].N < table.body[k + 1].N
           \/ /\ table.body[k].N = table.body[k + 1].N
              /\ table.body[k].threads < table.body[k + 1].threads
IsAscending(s) == \A k \in 1..(Len(s) - 1) : s[k] < s[k + 1]

\* C7 (amended): every emitted table has exactly one row per configured pair;
\* the raw CSV's rows are in the configured enumeration order, and the rows
\* of the seconds CSV and of the summary table are in ascending (N, threads)
\* order, which is the configured order when both lists are ascending.
C7_RawConfiguredOthersAscending ==
    /\ \A x \in 1..3 : OneRowPerPair(Tables[x])
    /\ InConfiguredOrder(csv_raw)
    /\ Ascending(csv_sec) /\ Ascending(table_png)
    /\ (IsAscending(NS) /\ IsAscending(THREADS)) =>
          InConfiguredOrder(csv_sec) /\ InConfiguredOrder(table_png)
C7_Witness ==
    /\ pc = "done"
    /\ NS = <<10, 1>> /\ THREADS = <<2, 1>>
    /\ Written(csv_raw) /\ Written(csv_sec) /\ Written(table_png)
    /\ csv_raw.body[1].N = 10 /\ csv_sec.body[1].N = 1 /\ table_png.body[1].N = 1

\* C8: the run never writes into, or replaces a file of, the directory an
\* earlier run produced.
C8_PriorRunUntouched ==
    \A d \in DOMAIN PriorDisk : disk[d] = PriorDisk[d]

\* what the speedup chart plots for the cell (n, t)
ChartPoint(n, t) ==
    LET line == CHOOSE k \in 1..Len(charts.speedup) : charts.speedup[k].threads = t
        pts == charts.speedup[line].points
        at == CHOOSE j \in 1..Len(pts) : pts[j][1] = n
    IN  pts[at][2]

\* C9: for every cell the speedup of the raw CSV, of the seconds CSV and of
\* the speedup chart are all undefined or all defined, and when defined the
\* seconds CSV holds the raw value rounded to 3 decimals.
C9_SpeedupsAgree ==
    (Written(csv_raw) /\ Written(charts) /\ Written(csv_sec)) =>
      \A p \in Pairs :
        LET raw == csv_raw.body[CHOOSE k \in RowsFor(csv_raw.body, p[1], p[2]) : TRUE].speedup
            sec == csv_sec.body[CHOOSE k \in RowsFor(csv_sec.body, p[1], p[2]) : TRUE].speedup
            plotted == ChartPoint(p[1], p[2])
        IN  /\ IsNaN(raw) <=> sec = Blank
            /\ IsNaN(raw) <=> IsNaN(plotted)
            /\ ~IsNaN(raw) => sec = Round3(raw)

\* the per-trial columns of a header
TrialColumns(header) == {c \in Range(header) : c[2] > 0}

\* C10: for every trial count, a run whose executable was found reaches
\* "Done." with every artifact written, and each table has one per-trial
\* column for each of the TRIALS trials.
C10_DoneForEveryTrialCount ==
    /\ pc # "crashed"
    /\ pc = "done" =>
         /\ DOMAIN disk[outdir] = AllFiles
         /\ \A x \in 1..3 : Cardinality(TrialColumns(Tables[x].header)) = TRIALS
====
